---------------------------- MODULE Spec2Model ----------------------------
(***************************************************************************)
(* AGNES hotspot clustering (clustering/agnes_algorithm.py).               *)
(*                                                                         *)
(* One AGNESClusterer instance is modelled: its configuration, the state   *)
(* it retains (labels_, n_clusters_, linkage_matrix_) and the value its    *)
(* last fit() call returned.  The calls fit() makes into scipy             *)
(* (linkage, fcluster) are modelled by what those routines compute:        *)
(* nearest-neighbour chain for complete/average linkage, the minimum       *)
(* spanning tree for single linkage, the stable sort and relabelling of    *)
(* the merges, and the flat cut on the maximum merge distance of a         *)
(* subtree.                                                                *)
(*                                                                         *)
(* Five specifications share the definitions.  Spec: one call is made on   *)
(* a new instance.  SpecSeq: up to MaxCalls calls (fit, predict) are made  *)
(* on one instance, one after the other, and history records them.         *)
(* SpecConc: two threads run fit at the same time, each on its own         *)
(* instance, statement by statement; they share the module's logger.       *)
(* SpecJob: the Celery task and the management command that call fit run   *)
(* one after the other on the accidents, accident_clusters and             *)
(* clustering_jobs tables.  SpecLogin: one user posts the login form with  *)
(* right and wrong passwords while the clock moves on.                     *)
(*                                                                         *)
(* Numbers.  Coordinates are points of an integer grid.  The centre of a   *)
(* cluster is a floating-point mean, rounded as np.mean rounds it, with    *)
(* Precision significand bits in place of the 53 of a float64.  A distance *)
(* is a fixed-point number: the Euclidean distance in hundredths of a grid *)
(* step, times DistUnit, where DistUnit is a common multiple of every      *)
(* product of two cluster sizes that can occur, so that the mean           *)
(* distances of average linkage are computed without rounding.             *)
(***************************************************************************)
EXTENDS Integers, Sequences, FiniteSets, TLC

(***************************************************************************)
(* Bounds of the model.                                                    *)
(***************************************************************************)
MaxN == 4        \* longest input list
MaxLat == 2      \* latitudes 0..MaxLat
MaxLng == 1      \* longitudes 0..MaxLng
MaxCalls == 3    \* calls made one after the other on one instance
Precision == 5   \* significand bits of a float (53 in a float64)

(***************************************************************************)
(* Arithmetic helpers.                                                     *)
(***************************************************************************)
Min2(a, b) == IF b < a THEN b ELSE a

Max2(a, b) == IF b > a THEN b ELSE a

RECURSIVE Gcd(_, _)
Gcd(a, b) == IF b = 0 THEN a ELSE Gcd(b, a % b)

Lcm(a, b) == (a * b) \div Gcd(a, b)

RECURSIVE LcmUpTo(_)
LcmUpTo(k) == IF k <= 1 THEN 1 ELSE Lcm(k, LcmUpTo(k - 1))

RECURSIVE ISqrtIn(_, _, _)
ISqrtIn(x, lo, hi) ==
    IF hi - lo <= 1 THEN lo
    ELSE LET mid == (lo + hi) \div 2
         IN  IF mid * mid <= x THEN ISqrtIn(x, mid, hi) ELSE ISqrtIn(x, lo, mid)

\* floor of the square root
ISqrt(x) == ISqrtIn(x, 0, Min2(x + 1, 46340))

\* a sum that leaves out the first term
RECURSIVE SumSeqFromSecond(_)
SumSeqFromSecond(s) ==
    IF Len(s) <= 1 THEN 0 ELSE s[Len(s)] + SumSeqFromSecond(SubSeq(s, 1, Len(s) - 1))

RECURSIVE SumSeq(_)
SumSeq(s) == IF s = <<>> THEN 0 ELSE Head(s) + SumSeq(Tail(s))

(***************************************************************************)
(* Distances: scipy pdist(coordinates, metric='euclidean'), called by      *)
(* linkage on the N x 2 coordinate matrix.                                 *)
(***************************************************************************)
\* every product of two cluster sizes divides DistUnit
DistUnit == LcmUpTo(Max2(MaxN, (MaxN * MaxN) \div 4))

\* |dx| + |dy| in place of the euclidean metric
EuclidTaxicab(p, q) ==
    LET dx == IF p[1] < q[1] THEN q[1] - p[1] ELSE p[1] - q[1]
        dy == IF p[2] < q[2] THEN q[2] - p[2] ELSE p[2] - q[2]
    IN  DistUnit * 100 * (dx + dy)

\* max(|dx|, |dy|) in place of the euclidean metric
EuclidChessboard(p, q) ==
    LET dx == IF p[1] < q[1] THEN q[1] - p[1] ELSE p[1] - q[1]
        dy == IF p[2] < q[2] THEN q[2] - p[2] ELSE p[2] - q[2]
    IN  DistUnit * 100 * Max2(dx, dy)

Euclid(p, q) ==
    LET dlat == p[1] - q[1]
        dlng == p[2] - q[2]
    IN  DistUnit * ISqrt(10000 * (dlat * dlat + dlng * dlng))

\* condensed_index: the unordered pair {i, j} of observations
Pair(i, j) == IF i < j THEN <<i, j>> ELSE <<j, i>>

Pairs(n) == {pr \in (0 .. n - 1) \X (0 .. n - 1) : pr[1] < pr[2]}

\* coords: a sequence of <<lat, lng>>; observation i is coords[i + 1]
Pdist(coords) ==
    [pr \in Pairs(Len(coords)) |-> Euclid(coords[pr[1] + 1], coords[pr[2] + 1])]


(***************************************************************************)
(* scipy.cluster.hierarchy.linkage, as called at fit lines 75-79.          *)
(* A merge row is <<x, y, dist, count>>, cluster ids as scipy numbers      *)
(* them: observations 0..n-1, the cluster made by row k is n + k.          *)
(***************************************************************************)
LinkageMethods == {"complete", "single", "average"}

\* the update of single linkage under every method
NewDistNearest(method, dxi, dyi, nx, ny) == Min2(dxi, dyi)

\* the update of average linkage under every method
NewDistMean(method, dxi, dyi, nx, ny) == (nx * dxi + ny * dyi) \div (nx + ny)

\* the Lance-Williams update nn_chain applies after merging x and y
NewDist(method, dxi, dyi, nx, ny) ==
    CASE method = "complete" -> Max2(dxi, dyi)
      [] method = "average"  -> (nx * dxi + ny * dyi) \div (nx + ny)
      [] OTHER               -> Min2(dxi, dyi)

MinOf(S) == CHOOSE m \in S : \A o \in S : m <= o

\* the scan "for i in range(n): if dist < current_min": the previous chain
\* element wins ties, then the lowest index
NearestTo(x, prev, D, size, n) ==
    LET others == {i \in 0 .. n - 1 : size[i] > 0 /\ i # x}
        best   == MinOf({D[Pair(x, i)] : i \in others})
        first  == MinOf({i \in others : D[Pair(x, i)] = best})
    IN  IF prev >= 0 /\ D[Pair(x, prev)] <= best
        THEN <<prev, D[Pair(x, prev)]>>
        ELSE <<first, best>>

\* follow nearest neighbours until two clusters are each other's nearest
RECURSIVE GrowChain(_, _, _, _)
GrowChain(chain, D, size, n) ==
    LET len  == Len(chain)
        x    == chain[len]
        prev == IF len > 1 THEN chain[len - 1] ELSE -1
        nn   == NearestTo(x, prev, D, size, n)
    IN  IF len > 1 /\ nn[1] = prev
        THEN [chain |-> chain, a |-> x, b |-> nn[1], dist |-> nn[2]]
        ELSE GrowChain(Append(chain, nn[1]), D, size, n)

RECURSIVE NNChainFrom(_, _, _, _, _, _, _)
NNChainFrom(k, chain, D, size, Z, n, method) ==
    IF k >= n - 1 THEN Z
    ELSE LET start == IF chain = <<>>
                      THEN <<MinOf({i \in 0 .. n - 1 : size[i] > 0})>>
                      ELSE chain
             g   == GrowChain(start, D, size, n)
             x   == Min2(g.a, g.b)
             y   == Max2(g.a, g.b)
             nx  == size[x]
             ny  == size[y]
             size2 == [size EXCEPT ![x] = 0, ![y] = nx + ny]
             D2  == [pr \in DOMAIN D |->
                       IF y \in {pr[1], pr[2]}
                       THEN LET i == IF pr[1] = y THEN pr[2] ELSE pr[1]
                            IN  IF size2[i] = 0 THEN D[pr]
                                ELSE NewDist(method, D[Pair(i, x)], D[pr], nx, ny)
                       ELSE D[pr]]
         IN  NNChainFrom(k + 1, SubSeq(g.chain, 1, Len(g.chain) - 2), D2, size2,
                         Append(Z, <<x, y, g.dist, nx + ny>>), n, method)

NNChain(dists, n, method) ==
    NNChainFrom(0, <<>>, dists, [i \in 0 .. n - 1 |-> 1], <<>>, n, method)

\* mst_single_linkage: grow the minimum spanning tree from observation 0
RECURSIVE MstFrom(_, _, _, _, _, _, _)
MstFrom(i, x, merged, D, Z, dists, n) ==
    IF i >= n - 1 THEN Z
    ELSE LET merged2 == merged \cup {x}
             rest == (0 .. n - 1) \ merged2
             D2   == [k \in 0 .. n - 1 |->
                        IF k \in rest /\ (D[k] < 0 \/ D[k] > dists[Pair(x, k)])
                        THEN dists[Pair(x, k)] ELSE D[k]]
             best == MinOf({D2[k] : k \in rest})
             y    == MinOf({k \in rest : D2[k] = best})
         IN  MstFrom(i + 1, y, merged2, D2, Append(Z, <<x, y, best, 0>>), dists, n)

\* D[k] < 0 stands for the initial infinity
MstSingleLinkage(dists, n) ==
    MstFrom(0, 0, {}, [k \in 0 .. n - 1 |-> -1], <<>>, dists, n)

\* np.argsort(Z[:, 2], kind='mergesort'): a stable sort by merge distance
RECURSIVE InsertRow(_, _)
InsertRow(sorted, row) ==
    IF sorted = <<>> THEN <<row>>
    ELSE LET last == sorted[Len(sorted)]
         IN  IF last[3] <= row[3] THEN Append(sorted, row)
             ELSE Append(InsertRow(SubSeq(sorted, 1, Len(sorted) - 1), row), last)

RECURSIVE SortByDist(_)
SortByDist(Z) ==
    IF Z = <<>> THEN <<>>
    ELSE InsertRow(SortByDist(SubSeq(Z, 1, Len(Z) - 1)), Z[Len(Z)])

\* label(): rename each row's clusters to their current union-find roots,
\* the smaller id first, and fill in the size of the merged cluster
RECURSIVE LabelFrom(_, _, _, _, _)
LabelFrom(k, Z, root, count, n) ==
    IF k > Len(Z) THEN Z
    ELSE LET xr == root[Z[k][1]]
             yr == root[Z[k][2]]
             id == n + k - 1
             sz == count[xr] + count[yr]
             row == <<Min2(xr, yr), Max2(xr, yr), Z[k][3], sz>>
             root2 == [o \in DOMAIN root |-> IF root[o] \in {xr, yr} THEN id ELSE root[o]]
             count2 == [c \in DOMAIN count \cup {id} |-> IF c = id THEN sz ELSE count[c]]
         IN  LabelFrom(k + 1, [Z EXCEPT ![k] = row], root2, count2, n)

Label(Z, n) ==
    LabelFrom(1, Z, [o \in 0 .. n - 1 |-> o], [o \in 0 .. n - 1 |-> 1], n)

Linkage(coords, method) ==
    LET n == Len(coords)
        dists == Pdist(coords)
    IN  IF method = "single"
        THEN Label(SortByDist(MstSingleLinkage(dists, n)), n)
        ELSE Label(SortByDist(NNChain(dists, n, method)), n)

(***************************************************************************)
(* scipy.cluster.hierarchy.fcluster(Z, t, criterion='distance'), as called *)
(* at fit lines 82-86.                                                     *)
(***************************************************************************)
\* get_max_dist_for_each_cluster: the largest merge distance in the
\* subtree of each row (rows come children first)
RECURSIVE MaxDistsFrom(_, _, _)
MaxDistsFrom(k, Z, n) ==
    IF k = 0 THEN <<>>
    ELSE LET MD == MaxDistsFrom(k - 1, Z, n)
             l  == Z[k][1]
             r  == Z[k][2]
             ml == IF l >= n THEN MD[l - n + 1] ELSE 0
             mr == IF r >= n THEN MD[r - n + 1] ELSE 0
         IN  Append(MD, Max2(Z[k][3], Max2(ml, mr)))

MaxDists(Z, n) == MaxDistsFrom(Len(Z), Z, n)

\* cluster_monocrit: walk the tree from the root; the first node on a path
\* whose criterion is <= cutoff leads a flat cluster, a leaf reached under
\* no leader is a cluster of its own.  The walk visits the left subtree,
\* then the right subtree, then the left leaf, then the right leaf, and
\* numbers the clusters in the order it meets them.
\* st = [T |-> labels of the leaves seen so far, nc |-> clusters so far]
RECURSIVE Monocrit(_, _, _, _, _, _, _)
Monocrit(node, led, st, Z, MC, cutoff, n) ==
    LET row   == Z[node - n + 1]
        leads == ~led /\ MC[node - n + 1] <= cutoff
        in    == led \/ leads
        s0    == IF leads THEN [st EXCEPT !.nc = @ + 1] ELSE st
        s1    == IF row[1] >= n THEN Monocrit(row[1], in, s0, Z, MC, cutoff, n) ELSE s0
        s2    == IF row[2] >= n THEN Monocrit(row[2], in, s1, Z, MC, cutoff, n) ELSE s1
        s3    == IF row[1] < n
                 THEN LET c == IF in THEN s2.nc ELSE s2.nc + 1
                      IN  [T |-> [s2.T EXCEPT ![row[1] + 1] = c], nc |-> c]
                 ELSE s2
        s4    == IF row[2] < n
                 THEN LET c == IF in THEN s3.nc ELSE s3.nc + 1
                      IN  [T |-> [s3.T EXCEPT ![row[2] + 1] = c], nc |-> c]
                 ELSE s3
    IN  s4

\* mutant: the cut keeps a merge only when its distance is below the threshold
FclusterStrict(Z, t) ==
    LET n == Len(Z) + 1
    IN  Monocrit(2 * n - 2, FALSE, [T |-> [i \in 1 .. n |-> 0], nc |-> 0],
                 Z, MaxDists(Z, n), t - 1, n).T

\* the flat labels, one per observation, in input order
Fcluster(Z, t) ==
    LET n == Len(Z) + 1
    IN  Monocrit(2 * n - 2, FALSE, [T |-> [i \in 1 .. n |-> 0], nc |-> 0],
                 Z, MaxDists(Z, n), t, n).T

(***************************************************************************)
(* Accident records are Python dicts: a TLA+ record whose DOMAIN is the    *)
(* set of keys the dict has.  A coordinate is a grid number or NaN.        *)
(***************************************************************************)
NaN == 0 - (MaxLat + MaxLng + 1)

Has(acc, key) == key \in DOMAIN acc

\* acc.get(key, default)
Get(acc, key, default) == IF Has(acc, key) THEN acc[key] ELSE default

(***************************************************************************)
(* The coordinate array is a float array.  A float has Precision           *)
(* significand bits and is held as a whole number of 1 / FloatUnit; every  *)
(* grid number is a float.  np.mean adds the column from left to right,    *)
(* rounding each partial sum, and divides by the count; each rounding is   *)
(* to the nearest float, ties to the even significand.                     *)
(***************************************************************************)
RECURSIVE Pow2(_)
Pow2(k) == IF k = 0 THEN 1 ELSE 2 * Pow2(k - 1)

FloatUnit == Pow2(Precision + 4)

RECURSIVE BitLen(_)
BitLen(q) == IF q = 0 THEN 0 ELSE 1 + BitLen(q \div 2)

\* num / den, in 1 / FloatUnit, rounded to the nearest float
RoundToFloat(num, den) ==
    LET q    == num \div den
        ulp  == IF BitLen(q) > Precision THEN Pow2(BitLen(q) - Precision) ELSE 1
        lo   == (q \div ulp) * ulp
        rest == 2 * (num - lo * den)
    IN  IF rest < ulp * den THEN lo
        ELSE IF rest > ulp * den THEN lo + ulp
        ELSE IF (lo \div ulp) % 2 = 0 THEN lo ELSE lo + ulp

\* float(x) of a coordinate
ToFloat(x) == x * FloatUnit

\* the running sum of np.add.reduce over fewer than 8 floats
RECURSIVE FloatSum(_)
FloatSum(values) ==
    IF values = <<>> THEN 0
    ELSE RoundToFloat(FloatSum(SubSeq(values, 1, Len(values) - 1))
                         + values[Len(values)], 1)

\* np.mean
Mean(values) == RoundToFloat(FloatSum(values), Len(values))

(***************************************************************************)
(* AGNESClusterer._calculate_severity                                      *)
(***************************************************************************)
\* mutant: the frequency score is not capped
CalculateSeverityUncapped(weights, accident_count, killed_count, injured_count) ==
    Min2(accident_count * 2
           + Min2(killed_count * weights.killed + injured_count * weights.injured, 60),
         100)

CalculateSeverity(weights, accident_count, killed_count, injured_count) ==
    LET frequency_score == Min2(accident_count * 2, 40)
        casualty_score  == Min2(killed_count * weights.killed
                                  + injured_count * weights.injured, 60)
        total_score     == frequency_score + casualty_score
    IN  Min2(total_score, 100)

(***************************************************************************)
(* AGNESClusterer._build_clusters                                          *)
(***************************************************************************)
\* mutant: the mask compares with <= instead of ==
RECURSIVE IndicesWithUpTo(_, _, _)
IndicesWithUpTo(labels, cluster_id, i) ==
    IF i > Len(labels) THEN <<>>
    ELSE (IF labels[i] <= cluster_id THEN <<i>> ELSE <<>>)
            \o IndicesWithUpTo(labels, cluster_id, i + 1)

\* mutant: the positions that carry cluster_id, last one first
RECURSIVE IndicesWithDescending(_, _, _)
IndicesWithDescending(labels, cluster_id, i) ==
    IF i > Len(labels) THEN <<>>
    ELSE IndicesWithDescending(labels, cluster_id, i + 1)
            \o (IF labels[i] = cluster_id THEN <<i>> ELSE <<>>)

RECURSIVE IndicesWith(_, _, _)
\* the positions i..Len(labels) that carry cluster_id, ascending (the mask)
IndicesWith(labels, cluster_id, i) ==
    IF i > Len(labels) THEN <<>>
    ELSE (IF labels[i] = cluster_id THEN <<i>> ELSE <<>>)
            \o IndicesWith(labels, cluster_id, i + 1)

UniqueLabels(labels) == {labels[i] : i \in 1 .. Len(labels)}

MaxOf(S) == CHOOSE m \in S : \A o \in S : m >= o

CountIn(seq, v) == Cardinality({i \in 1 .. Len(seq) : seq[i] = v})

\* the names of `present' in the iteration order of a Python set; order is
\* a sequence holding every name once
RECURSIVE InOrder(_, _)
InOrder(order, present) ==
    IF order = <<>> THEN <<>>
    ELSE (IF Head(order) \in present THEN <<Head(order)>> ELSE <<>>)
            \o InOrder(Tail(order), present)

\* the first name of the set, whatever its count
FirstName(names, municipalities) == names[1]

\* max(iterable, key=count): the first element whose count is the largest
RECURSIVE FirstMax(_, _)
FirstMax(names, municipalities) ==
    IF Len(names) = 1 THEN names[1]
    ELSE LET best == FirstMax(Tail(names), municipalities)
         IN  IF CountIn(municipalities, names[1]) >= CountIn(municipalities, best)
             THEN names[1] ELSE best

\* the dates of the members, a missing one included as None
DatesOrNone(cluster_accidents) ==
    {Get(cluster_accidents[j], "date_committed", 0) : j \in DOMAIN cluster_accidents}

\* dates: acc.get('date_committed') of the members where it is truthy
\* (None is 0, and dates are positive day numbers)
DatesOf(cluster_accidents) ==
    {Get(cluster_accidents[j], "date_committed", 0) : j \in DOMAIN cluster_accidents} \ {0}

\* the dict appended at lines 199-217 for one label; members are positions
ClusterOf(cluster_id, members, accidents_data, coordinates, weights, order) ==
    LET k     == Len(members)
        lats  == [j \in 1 .. k |-> coordinates[members[j]][1]]
        lngs  == [j \in 1 .. k |-> coordinates[members[j]][2]]
        accs  == [j \in 1 .. k |-> accidents_data[members[j]]]
        killed_count  == Cardinality({j \in 1 .. k : Get(accs[j], "victim_killed", FALSE)})
        injured_count == Cardinality({j \in 1 .. k : Get(accs[j], "victim_injured", FALSE)})
        municipalities == [j \in 1 .. k |-> Get(accs[j], "municipal", "Unknown")]
        names == InOrder(order, {municipalities[j] : j \in 1 .. k})
        dates == DatesOf(accs)
    IN  [cluster_id       |-> cluster_id,
         center_latitude  |-> Mean([j \in 1 .. k |-> ToFloat(lats[j])]),
         center_longitude |-> Mean([j \in 1 .. k |-> ToFloat(lngs[j])]),
         accident_count   |-> k,
         total_casualties |-> SumSeq([j \in 1 .. k |-> Get(accs[j], "victim_count", 0)]),
         killed_count     |-> killed_count,
         injured_count    |-> injured_count,
         severity_score   |-> CalculateSeverity(weights, k, killed_count, injured_count),
         primary_location |-> FirstMax(names, municipalities),
         municipalities   |-> names,
         min_latitude     |-> ToFloat(MinOf({lats[j] : j \in 1 .. k})),
         max_latitude     |-> ToFloat(MaxOf({lats[j] : j \in 1 .. k})),
         min_longitude    |-> ToFloat(MinOf({lngs[j] : j \in 1 .. k})),
         max_longitude    |-> ToFloat(MaxOf({lngs[j] : j \in 1 .. k})),
         date_range_start |-> IF dates = {} THEN 0 ELSE MinOf(dates),
         date_range_end   |-> IF dates = {} THEN 0 ELSE MaxOf(dates),
         accident_ids     |-> [j \in 1 .. k |-> accs[j].id]]

\* clusters.sort(key=severity_score, reverse=True): stable, descending
RECURSIVE InsertCluster(_, _)
InsertCluster(sorted, c) ==
    IF sorted = <<>> THEN <<c>>
    ELSE LET last == sorted[Len(sorted)]
         IN  IF last.severity_score >= c.severity_score THEN Append(sorted, c)
             ELSE Append(InsertCluster(SubSeq(sorted, 1, Len(sorted) - 1), c), last)

\* mutant: the sort is left out
SortForgotten(clusters) == clusters

\* a descending sort that puts the later of two equal clusters first
RECURSIVE SortTiesReversed(_)
SortTiesReversed(clusters) ==
    IF clusters = <<>> THEN <<>>
    ELSE InsertCluster(SortTiesReversed(Tail(clusters)), Head(clusters))

RECURSIVE SortBySeverity(_)
SortBySeverity(clusters) ==
    IF clusters = <<>> THEN <<>>
    ELSE InsertCluster(SortBySeverity(SubSeq(clusters, 1, Len(clusters) - 1)),
                       clusters[Len(clusters)])

\* a group of exactly the minimum size is skipped too
TooSmallOrEqual(members, min_size) == Len(members) <= min_size

\* "Skip if too small" (lines 143-145)
TooSmall(members, min_cluster_size) == Len(members) < min_cluster_size

\* the loop over np.unique(labels_), ascending, from label cluster_id on
RECURSIVE ClustersFrom(_, _, _, _, _, _, _)
ClustersFrom(cluster_id, labels, accidents_data, coordinates, min_cluster_size, weights, order) ==
    IF cluster_id > MaxOf(UniqueLabels(labels)) THEN <<>>
    ELSE LET members == IndicesWith(labels, cluster_id, 1)
             rest == ClustersFrom(cluster_id + 1, labels, accidents_data, coordinates,
                                  min_cluster_size, weights, order)
         IN  IF members = <<>> \/ TooSmall(members, min_cluster_size) THEN rest
             ELSE <<ClusterOf(cluster_id, members, accidents_data, coordinates,
                              weights, order)>> \o rest

BuildClusters(labels, accidents_data, coordinates, min_cluster_size, weights, order) ==
    SortBySeverity(ClustersFrom(1, labels, accidents_data, coordinates,
                                min_cluster_size, weights, order))

\* acc['id'] (line 216) raises KeyError when a member of a cluster that is
\* not skipped has no id
BuildRaises(labels, accidents_data, min_cluster_size) ==
    \E cluster_id \in UniqueLabels(labels) :
        LET members == IndicesWith(labels, cluster_id, 1)
        IN  /\ ~TooSmall(members, min_cluster_size)
            /\ \E j \in 1 .. Len(members) : ~Has(accidents_data[members[j]], "id")

(***************************************************************************)
(* The instance and its callers.                                           *)
(***************************************************************************)
VARIABLES
    linkage_method,       \* configuration, set by __init__
    distance_threshold,
    min_cluster_size,
    severity_weights,
    labels_,              \* retained state; <<>> is None
    n_clusters_,
    linkage_matrix_,      \* <<>> is None
    call,                 \* the last call made on the instance and its arguments
    result,               \* what that call returned
    history,              \* the calls completed on the instance, oldest first
    threads,              \* fit calls in progress, one for each thread
    instances,            \* the attributes of the instance each thread owns
    log,                  \* what the module's logger has emitted
    accident_rows,        \* the accidents table
    cluster_rows,         \* the accident_clusters table
    job_rows,             \* the clustering_jobs table, oldest first
    task_queue,           \* retries of the clustering task waiting to run
    run,                  \* the last clustering job that ran, and what it found
    nullable_dates,       \* clustering_jobs accepts a row without its dates
    profile,              \* the user_profiles row of one user
    now,                  \* the clock, in minutes
    attempt,              \* the last login attempt and what it was answered
    streak                \* wrong passwords since the last other attempt

vars == <<linkage_method, distance_threshold, min_cluster_size, severity_weights,
          labels_, n_clusters_, linkage_matrix_, call, result, history,
          threads, instances, log,
          accident_rows, cluster_rows, job_rows, task_queue, run, nullable_dates,
          profile, now, attempt, streak>>

\* the database the clustering jobs write
jobs == <<accident_rows, cluster_rows, job_rows, task_queue, run, nullable_dates>>

\* the account a user logs in to
logins == <<profile, now, attempt, streak>>

\* a NULL column
Null == 0 - 1

\* no clustering job has run
NoJobs ==
    /\ accident_rows = {}
    /\ cluster_rows = {}
    /\ job_rows = <<>>
    /\ task_queue = {}
    /\ run = [kind |-> "none", number |-> 0]
    /\ nullable_dates = FALSE

\* UserProfile's defaults: nobody has tried to log in
NoLogins ==
    /\ profile = [failed_login_attempts |-> 0, account_locked_until |-> Null,
                  is_active |-> TRUE]
    /\ now = 0
    /\ attempt = [outcome |-> "none"]
    /\ streak = 0

retained == <<labels_, n_clusters_, linkage_matrix_>>

config == <<linkage_method, distance_threshold, min_cluster_size, severity_weights>>

\* a completed call: what was called, what it returned and what the
\* instance retains after it
Completed == [call |-> call, result |-> result, retained |-> retained]

(***************************************************************************)
(* AGNESClusterer.__init__: the configurations the model constructs.       *)
(***************************************************************************)
DefaultWeights == [killed |-> 10, injured |-> 5, property_damage |-> 1]

\* caller-supplied weights; the constructor accepts any dict
CustomWeights == {[killed |-> 15, injured |-> 8, property_damage |-> 2],
                  [killed |-> 0 - 10, injured |-> 5, property_damage |-> 1]}

\* 1.00 and 1.50 grid steps
Thresholds == {DistUnit * 100, DistUnit * 150}

MinSizes == {2, 3}

\* a name scipy's linkage does not know
UnsupportedMethod == "nearest"

Configs ==
    (LinkageMethods \X Thresholds \X MinSizes \X {DefaultWeights})
        \cup ({"complete"} \X {DistUnit * 150} \X {2} \X CustomWeights)
        \cup ({UnsupportedMethod} \X {DistUnit * 150} \X {2} \X {DefaultWeights})

\* the threads that call fit at the same time, each on an instance of its own
Threads == {1, 2}

\* the attributes of an instance constructed with configuration c
NewInstance(c) ==
    [linkage_method |-> c[1], distance_threshold |-> c[2], min_cluster_size |-> c[3],
     severity_weights |-> c[4], labels_ |-> <<>>, n_clusters_ |-> 0,
     linkage_matrix_ |-> <<>>]

concurrent == <<threads, instances, log>>

\* no thread has been started
NoThreads ==
    /\ threads = [t \in Threads |-> [pc |-> "idle"]]
    /\ instances = [t \in Threads |->
                       NewInstance(<<"complete", DistUnit * 100, 3, DefaultWeights>>)]
    /\ log = <<>>

Init ==
    /\ \E c \in Configs :
          /\ linkage_method = c[1]
          /\ distance_threshold = c[2]
          /\ min_cluster_size = c[3]
          /\ severity_weights = c[4]
    /\ labels_ = <<>>
    /\ n_clusters_ = 0
    /\ linkage_matrix_ = <<>>
    /\ call = [op |-> "__init__"]
    /\ result = [op |-> "__init__"]
    /\ history = <<>>
    /\ NoThreads
    /\ NoJobs
    /\ NoLogins

(***************************************************************************)
(* AGNESClusterer.fit                                                      *)
(***************************************************************************)
Failure(message) == [success |-> FALSE, message |-> message, clusters |-> <<>>]

\* mutant: a run that finds no hotspot is reported as a failure
SuccessUnlessEmpty(accidents_data, valid_clusters) ==
    IF valid_clusters = <<>>
    THEN [success |-> FALSE, message |-> "No hotspots found", clusters |-> <<>>]
    ELSE [success         |-> TRUE,
          total_accidents |-> Len(accidents_data),
          clusters_found  |-> Len(valid_clusters),
          clusters        |-> valid_clusters]

\* mutant: total_accidents counts the accidents of the hotspots only
SuccessCountingClustered(accidents_data, valid_clusters) ==
    [success         |-> TRUE,
     total_accidents |-> SumSeq([k \in 1 .. Len(valid_clusters) |->
                                    valid_clusters[k].accident_count]),
     clusters_found  |-> Len(valid_clusters),
     clusters        |-> valid_clusters]

Success(accidents_data, valid_clusters) ==
    [success         |-> TRUE,
     total_accidents |-> Len(accidents_data),
     clusters_found  |-> Len(valid_clusters),
     clusters        |-> valid_clusters]

\* mutant: the guard compares with the wrong bound
NotEnoughOffByOne(accidents_data, min_size) == Len(accidents_data) < min_size - 1

\* the fast reject of lines 58-64
NotEnough(accidents_data, min_size) == Len(accidents_data) < min_size

\* exceptions are values until the except clause of fit turns them into a
\* Failure; str(KeyError(k)) is k in quotes
NoError == [type |-> "none", arg |-> ""]

KeyError(key) == [type |-> "KeyError", arg |-> key]

ValueError(message) == [type |-> "ValueError", arg |-> message]

Str(e) == IF e.type = "KeyError" THEN "'" \o e.arg \o "'" ELSE e.arg

\* mutant: the except clause catches ValueError only; another exception
\* leaves fit
CaughtValueErrorOnly(e) ==
    IF e.type = "ValueError"
    THEN [success |-> FALSE, message |-> Str(e), clusters |-> <<>>]
    ELSE [raised |-> e]

\* "except Exception as e" (lines 112-118)
Caught(e) == Failure(Str(e))

\* the exception raised while the coordinates are extracted (lines 68-71):
\* the first lookup of a key a record does not have
RECURSIVE ExtractionError(_, _)
ExtractionError(accidents_data, i) ==
    IF i > Len(accidents_data) THEN NoError
    ELSE IF ~Has(accidents_data[i], "latitude") THEN KeyError("latitude")
    ELSE IF ~Has(accidents_data[i], "longitude") THEN KeyError("longitude")
    ELSE ExtractionError(accidents_data, i + 1)

Coordinates(accidents_data) ==
    [i \in 1 .. Len(accidents_data) |->
        <<accidents_data[i].latitude, accidents_data[i].longitude>>]

\* the exception scipy's linkage raises before it merges anything
LinkageError(coordinates, method) ==
    IF method \notin LinkageMethods THEN ValueError("Invalid method: " \o method)
    ELSE IF Len(coordinates) < 2
    THEN ValueError("The number of observations cannot be determined on an empty distance matrix.")
    ELSE IF \E i \in 1 .. Len(coordinates) : NaN \in {coordinates[i][1], coordinates[i][2]}
    THEN ValueError("The condensed distance matrix must contain only finite values.")
    ELSE NoError

\* mutant: the filter drops clusters of exactly the minimum size
ValidClustersStrict(clusters, min_size) ==
    SelectSeq(clusters, LAMBDA c : c.accident_count > min_size)

\* the filter of lines 98-101
ValidClusters(clusters, min_size) ==
    SelectSeq(clusters, LAMBDA c : c.accident_count >= min_size)

\* mutant: both size tests admit clusters one accident short of the minimum
HotspotsOffByOne(labels, accidents_data, min_size, weights, order) ==
    IF BuildRaises(labels, accidents_data, min_size - 1)
    THEN [error |-> KeyError("id"), clusters |-> <<>>]
    ELSE [error |-> NoError,
          clusters |-> ValidClusters(
                           BuildClusters(labels, accidents_data, Coordinates(accidents_data),
                                         min_size - 1, weights, order),
                           min_size - 1)]

\* lines 95-101: the clusters built from the labels, small ones filtered
\* out, or the KeyError that building them raised
Hotspots(labels, accidents_data, min_size, weights, order) ==
    IF BuildRaises(labels, accidents_data, min_size)
    THEN [error |-> KeyError("id"), clusters |-> <<>>]
    ELSE [error |-> NoError,
          clusters |-> ValidClusters(
                           BuildClusters(labels, accidents_data, Coordinates(accidents_data),
                                         min_size, weights, order),
                           min_size)]

\* what fit returns once the clusters are built or building them has raised
Returned(accidents_data, built) ==
    IF built.error # NoError THEN Caught(built.error)
    ELSE Success(accidents_data, built.clusters)

\* every order in which a Python set may hold the municipal names of a list
NamesOf(accidents_data) ==
    {Get(accidents_data[i], "municipal", "Unknown") : i \in 1 .. Len(accidents_data)}

OrdersOf(S) ==
    {o \in [1 .. Cardinality(S) -> S] : \A a, b \in 1 .. Cardinality(S) : o[a] = o[b] => a = b}

Fit(accidents_data) ==
    /\ call' = [op |-> "fit", accidents_data |-> accidents_data]
    /\ UNCHANGED config
    /\ IF NotEnough(accidents_data, min_cluster_size)
       THEN /\ result' = Failure("Not enough accidents for clustering")
            /\ UNCHANGED retained
       ELSE IF ExtractionError(accidents_data, 1) # NoError
       THEN /\ result' = Caught(ExtractionError(accidents_data, 1))
            /\ UNCHANGED retained
       ELSE IF LinkageError(Coordinates(accidents_data), linkage_method) # NoError
       THEN /\ result' = Caught(LinkageError(Coordinates(accidents_data), linkage_method))
            /\ UNCHANGED retained
       ELSE /\ linkage_matrix_' = Linkage(Coordinates(accidents_data), linkage_method)
            /\ labels_' = Fcluster(linkage_matrix_', distance_threshold)
            /\ n_clusters_' = Cardinality(UniqueLabels(labels_'))
            /\ \* the iteration order of Python sets of strings varies from one
               \* interpreter run to the next
               \E order \in OrdersOf(NamesOf(accidents_data)) :
                   result' = Returned(accidents_data,
                                 Hotspots(labels_', accidents_data, min_cluster_size,
                                          severity_weights, order))

\* a direct call of _calculate_severity, as the unit tests make
Severity(accident_count, killed_count, injured_count) ==
    /\ call' = [op |-> "_calculate_severity", accident_count |-> accident_count,
                killed_count |-> killed_count, injured_count |-> injured_count]
    /\ result' = [score |-> CalculateSeverity(severity_weights, accident_count,
                                               killed_count, injured_count)]
    /\ UNCHANGED <<config, retained>>

(***************************************************************************)
(* AGNESClusterer.predict                                                  *)
(***************************************************************************)
\* np.zeros(len(new_coordinates), dtype=int)
Zeros(n) == [i \in 1 .. n |-> 0]

Predict(new_coordinates) ==
    /\ call' = [op |-> "predict", new_coordinates |-> new_coordinates]
    /\ result' = IF labels_ = <<>>
                 THEN [raised |-> ValueError("Model not fitted yet")]
                 ELSE [labels |-> Zeros(Len(new_coordinates))]
    /\ UNCHANGED <<config, retained>>

(***************************************************************************)
(* The inputs the model draws.                                             *)
(***************************************************************************)
Grid == (0 .. MaxLat) \X (0 .. MaxLng)

\* primary keys, not in input order
IdOf(i) == 50 - i

\* the other fields of the i-th record of a list: some keys are left out
ProfileOf(i) ==
    CASE i % 4 = 1 -> [victim_count |-> 0, victim_killed |-> FALSE, victim_injured |-> FALSE,
                       municipal |-> "Butuan City", date_committed |-> 2]
      [] i % 4 = 2 -> [victim_count |-> 1, victim_injured |-> TRUE, date_committed |-> 1]
      [] i % 4 = 3 -> [victim_count |-> 2, victim_killed |-> TRUE, victim_injured |-> FALSE,
                       municipal |-> "Butuan City"]
      [] OTHER     -> [victim_killed |-> TRUE, victim_injured |-> TRUE, date_committed |-> 3]

Located(i, pos) == [id |-> IdOf(i), latitude |-> pos[1], longitude |-> pos[2]]

\* every list of up to MaxN records over the grid
GeoInputs ==
    UNION {{[i \in 1 .. n |-> Located(i, c[i]) @@ ProfileOf(i)] : c \in [1 .. n -> Grid]}
             : n \in 0 .. MaxN}

\* the first half of the records at one corner of the grid, the rest at
\* `far' (one group when far is the same corner)
Layout(n, far) == [i \in 1 .. n |-> IF 2 * i <= n THEN <<0, 0>> ELSE far]

\* every combination of the casualty flags over two fixed layouts
StatInputs ==
    UNION {{[i \in 1 .. n |->
                Located(i, Layout(n, far)[i])
                   @@ [victim_count |-> 1, victim_killed |-> f[i][1],
                       victim_injured |-> f[i][2], municipal |-> "Butuan City",
                       date_committed |-> i]]
              : f \in [1 .. n -> BOOLEAN \X BOOLEAN]}
             : <<n, far>> \in (2 .. MaxN) \X {<<0, 0>>, <<MaxLat, MaxLng>>}}

\* acc without one key
Without(acc, key) == [k \in DOMAIN acc \ {key} |-> acc[k]]

Damaged(acc, kind) ==
    CASE kind = "no latitude"  -> Without(acc, "latitude")
      [] kind = "no longitude" -> Without(acc, "longitude")
      [] kind = "no id"        -> Without(acc, "id")
      [] OTHER                 -> [acc EXCEPT !.latitude = NaN]

\* lists with one record that lacks a key or has a coordinate that is not finite
BadInputs ==
    UNION {{[i \in 1 .. n |->
                LET acc == Located(i, Layout(n, far)[i]) @@ ProfileOf(i)
                IN  IF i = j THEN Damaged(acc, kind) ELSE acc]
              : j \in 1 .. n, kind \in {"no latitude", "no longitude", "no id", "nan"}}
             : <<n, far>> \in (1 .. MaxN) \X {<<0, 0>>, <<MaxLat, MaxLng>>}}

\* coordinates that use every bit of the significand, as measured
\* coordinates do
FinePlaces == {<<v, v>> : v \in Pow2(Precision - 1) .. Pow2(Precision) - 1}

\* lists of accidents at one such place
FineInputs ==
    {[i \in 1 .. n |-> Located(i, place) @@ ProfileOf(i)]
        : n \in 2 .. MaxN, place \in FinePlaces}

\* records at one place whose date_committed is missing, None or a day
DateInputs ==
    UNION {{[i \in 1 .. n |->
                Located(i, <<0, 0>>)
                   @@ (IF d[i] = -1 THEN << >> ELSE [date_committed |-> d[i]])
                   @@ [victim_count |-> 0, municipal |-> "Butuan City"]]
              : d \in [1 .. n -> -1 .. 2]}
             : n \in 2 .. 3}

Inputs == GeoInputs \cup StatInputs \cup BadInputs \cup FineInputs \cup DateInputs

\* the counts the direct calls of the severity function pass
Counts == {0, 1, 3, 5, 10, 20, 50}

(***************************************************************************)
(* One instance is constructed and one call is made on it.                 *)
(***************************************************************************)
Next ==
    /\ call.op = "__init__"
    /\ \/ \E accidents_data \in Inputs : Fit(accidents_data)
       \/ \E a \in Counts, k \in Counts, i \in Counts : Severity(a, k, i)
    /\ history' = Append(history, Completed')
    /\ UNCHANGED <<concurrent, jobs, logins>>

Spec == Init /\ [][Next]_vars

(***************************************************************************)
(* One instance is constructed and up to MaxCalls calls are made on it,    *)
(* one after the other: fits on lists that are rejected, fail at each      *)
(* stage or succeed, and predictions.                                      *)
(***************************************************************************)
Records(positions) ==
    [i \in 1 .. Len(positions) |-> Located(i, positions[i]) @@ ProfileOf(i)]

\* three accidents at one place
SamePlace == Records(<<<<0, 0>>, <<0, 0>>, <<0, 0>>>>)

SeqInputs ==
    {Records(<<>>),
     Records(<<<<0, 0>>>>),
     Records(<<<<0, 0>>, <<MaxLat, MaxLng>>>>),
     Records(<<<<0, 0>>, <<0, 0>>, <<MaxLat, MaxLng>>, <<MaxLat, MaxLng>>>>),
     SamePlace}
      \cup {[SamePlace EXCEPT ![2] = Damaged(@, kind)]
               : kind \in {"no latitude", "no id", "nan"}}

\* the arguments of predict: arrays of [lat, lng] rows
NewCoordinates == {<<>>, <<<<0, 0>>, <<MaxLat, MaxLng>>>>}

NextSeq ==
    /\ Len(history) < MaxCalls
    /\ \/ \E accidents_data \in SeqInputs : Fit(accidents_data)
       \/ \E new_coordinates \in NewCoordinates : Predict(new_coordinates)
    /\ history' = Append(history, Completed')
    /\ UNCHANGED <<concurrent, jobs, logins>>

SpecSeq == Init /\ [][NextSeq]_vars

(***************************************************************************)
(* Two threads call fit at the same time, each on an instance it has       *)
(* constructed for itself, as the clustering task and the management       *)
(* command do.  The statements of fit interleave; a step is one statement  *)
(* that reads or writes the instance, with the logger calls next to it.    *)
(* The logger of the module is the one object the two calls share.         *)
(***************************************************************************)
\* every thread works on the first instance
SharedInstance(t) == 1

\* the instance thread t has constructed and calls fit on
InstanceOf(t) == t

Self(t) == instances[InstanceOf(t)]

Entry(t, level) == [thread |-> t, level |-> level]

\* except Exception as e: logger.error, return the failure dict
Raised(t, e, emitted) ==
    /\ log' = Append(emitted, Entry(t, "error"))
    /\ threads' = [threads EXCEPT ![t].pc = "done", ![t].result = Caught(e)]

\* logger.info(Starting AGNES clustering ...)
Start(t) ==
    /\ threads[t].pc = "start"
    /\ log' = Append(log, Entry(t, "info"))
    /\ threads' = [threads EXCEPT ![t].pc = "guard"]
    /\ UNCHANGED instances

\* if len(accidents_data) < self.min_cluster_size
Guard(t) ==
    /\ threads[t].pc = "guard"
    /\ IF NotEnough(threads[t].accidents_data, Self(t).min_cluster_size)
       THEN /\ log' = Append(log, Entry(t, "warning"))
            /\ threads' = [threads EXCEPT
                              ![t].pc = "done",
                              ![t].result = Failure("Not enough accidents for clustering")]
       ELSE /\ threads' = [threads EXCEPT ![t].pc = "extract"]
            /\ UNCHANGED log
    /\ UNCHANGED instances

\* coordinates = np.array([...])
Extract(t) ==
    /\ threads[t].pc = "extract"
    /\ LET e == ExtractionError(threads[t].accidents_data, 1)
       IN  IF e # NoError
           THEN Raised(t, e, log)
           ELSE /\ threads' = [threads EXCEPT
                                  ![t].pc = "linkage",
                                  ![t].coordinates = Coordinates(threads[t].accidents_data)]
                /\ UNCHANGED log
    /\ UNCHANGED instances

\* self.linkage_matrix_ = linkage(coordinates, method=self.linkage_method, ...)
LinkageStep(t) ==
    /\ threads[t].pc = "linkage"
    /\ LET e       == LinkageError(threads[t].coordinates, Self(t).linkage_method)
           emitted == Append(log, Entry(t, "info"))
       IN  IF e # NoError
           THEN Raised(t, e, emitted) /\ UNCHANGED instances
           ELSE /\ instances' = [instances EXCEPT
                                    ![InstanceOf(t)].linkage_matrix_ =
                                        Linkage(threads[t].coordinates, Self(t).linkage_method)]
                /\ threads' = [threads EXCEPT ![t].pc = "fcluster"]
                /\ log' = emitted

\* self.labels_ = fcluster(self.linkage_matrix_, t=self.distance_threshold, ...)
FclusterStep(t) ==
    /\ threads[t].pc = "fcluster"
    /\ instances' = [instances EXCEPT
                         ![InstanceOf(t)].labels_ =
                             Fcluster(Self(t).linkage_matrix_, Self(t).distance_threshold)]
    /\ threads' = [threads EXCEPT ![t].pc = "unique"]
    /\ UNCHANGED log

\* self.n_clusters_ = len(np.unique(self.labels_))
UniqueStep(t) ==
    /\ threads[t].pc = "unique"
    /\ instances' = [instances EXCEPT
                         ![InstanceOf(t)].n_clusters_ =
                             Cardinality(UniqueLabels(Self(t).labels_))]
    /\ threads' = [threads EXCEPT ![t].pc = "build"]
    /\ log' = Append(log, Entry(t, "info"))

\* clusters = self._build_clusters(...); valid_clusters = [...]
BuildStep(t) ==
    /\ threads[t].pc = "build"
    /\ \E order \in OrdersOf(NamesOf(threads[t].accidents_data)) :
           LET built == Hotspots(Self(t).labels_, threads[t].accidents_data,
                                 Self(t).min_cluster_size, Self(t).severity_weights, order)
           IN  IF built.error # NoError
               THEN Raised(t, built.error, log)
               ELSE /\ threads' = [threads EXCEPT ![t].pc = "return",
                                                  ![t].clusters = built.clusters]
                    /\ UNCHANGED log
    /\ UNCHANGED instances

\* logger.info(After filtering ...); return the success dict
ReturnStep(t) ==
    /\ threads[t].pc = "return"
    /\ log' = Append(log, Entry(t, "info"))
    /\ threads' = [threads EXCEPT
                       ![t].pc = "done",
                       ![t].result = Success(threads[t].accidents_data, threads[t].clusters)]
    /\ UNCHANGED instances

\* the configurations and the lists of the two callers
ConcConfigs ==
    {<<"complete", DistUnit * 100, 2, DefaultWeights>>,
     <<"average", DistUnit * 150, 3, DefaultWeights>>}

ConcInputs ==
    {Records(<<>>),
     Records(<<<<0, 0>>, <<0, 0>>, <<MaxLat, MaxLng>>, <<MaxLat, MaxLng>>>>),
     SamePlace,
     [SamePlace EXCEPT ![2] = Damaged(@, "no id")],
     [SamePlace EXCEPT ![2] = Damaged(@, "no latitude")]}

\* the instance of the sequential specifications is constructed and left alone
single == <<config, retained, call, result, history>>

InitConc ==
    /\ linkage_method = "complete"
    /\ distance_threshold = DistUnit * 100
    /\ min_cluster_size = 3
    /\ severity_weights = DefaultWeights
    /\ labels_ = <<>>
    /\ n_clusters_ = 0
    /\ linkage_matrix_ = <<>>
    /\ call = [op |-> "__init__"]
    /\ result = [op |-> "__init__"]
    /\ history = <<>>
    /\ \E c \in [Threads -> ConcConfigs], d \in [Threads -> ConcInputs] :
          /\ instances = [t \in Threads |-> NewInstance(c[t])]
          /\ threads = [t \in Threads |->
                            [pc |-> "start", accidents_data |-> d[t], coordinates |-> <<>>,
                             clusters |-> <<>>, result |-> [pending |-> TRUE]]]
    /\ log = <<>>
    /\ NoJobs
    /\ NoLogins

NextConc ==
    /\ \E t \in Threads :
          \/ Start(t)
          \/ Guard(t)
          \/ Extract(t)
          \/ LinkageStep(t)
          \/ FclusterStep(t)
          \/ UniqueStep(t)
          \/ BuildStep(t)
          \/ ReturnStep(t)
    /\ UNCHANGED <<single, jobs, logins>>

SpecConc == InitConc /\ [][NextConc]_vars

(***************************************************************************)
(* Properties.                                                             *)
(***************************************************************************)
FitCalled == call.op = "fit"

\* the argument of the fit call
Input == call.accidents_data

Succeeded == FitCalled /\ result.success

\* the number of input points that carry the label of point i
GroupSize(i) == Cardinality({j \in 1 .. Len(labels_) : labels_[j] = labels_[i]})

ClusteredCount == SumSeq([k \in 1 .. Len(result.clusters) |-> result.clusters[k].accident_count])

\* C1: fit called with fewer points than min_cluster_size (the empty list
\* included) returns the Failure 'Not enough accidents for clustering' with
\* an empty cluster list, and has not run the merge: the instance holds no
\* linkage matrix and no labels.
C1_FastReject ==
    (FitCalled /\ Len(Input) < min_cluster_size)
        => /\ result = [success |-> FALSE,
                        message |-> "Not enough accidents for clustering",
                        clusters |-> <<>>]
           /\ linkage_matrix_ = <<>>
           /\ labels_ = <<>>
           /\ n_clusters_ = 0

C1_Witness ==
    /\ FitCalled
    /\ min_cluster_size = 3
    /\ Len(Input) = 2
    /\ ~result.success

\* C2: every cluster of a successful fit result has
\* accident_count >= min_cluster_size.
C2_MinimumSize ==
    Succeeded => \A k \in 1 .. Len(result.clusters) :
                     result.clusters[k].accident_count >= min_cluster_size

\* a success that returns a cluster and has dropped a smaller label group
C2_Witness ==
    /\ Succeeded
    /\ Len(result.clusters) >= 1
    /\ \E i \in 1 .. Len(labels_) : GroupSize(i) < min_cluster_size

\* C3: in every successful result, for each of the linkage methods, each
\* cluster's accident_count is the length of its member id list and no id
\* of an input point is in the member id list of two clusters.
C3_CountsAndDisjoint ==
    (Succeeded /\ linkage_method \in {"complete", "single", "average"})
        => /\ \A k \in 1 .. Len(result.clusters) :
                  result.clusters[k].accident_count = Len(result.clusters[k].accident_ids)
           /\ \A k, l \in 1 .. Len(result.clusters) :
                  k # l => \A a \in 1 .. Len(result.clusters[k].accident_ids),
                              b \in 1 .. Len(result.clusters[l].accident_ids) :
                                result.clusters[k].accident_ids[a]
                                    # result.clusters[l].accident_ids[b]

C3_Witness ==
    /\ Succeeded
    /\ linkage_method = "average"
    /\ Len(result.clusters) = 2

\* C4: after a successful fit every input point has exactly one flat label,
\* and the accident_count of the returned clusters sum to at most the
\* reported input count, with equality exactly when no point is in a label
\* group smaller than min_cluster_size.
C4_Partition ==
    Succeeded
        => /\ Len(labels_) = Len(Input)
           /\ \A i \in 1 .. Len(Input) : labels_[i] \in 1 .. n_clusters_
           /\ ClusteredCount <= result.total_accidents
           /\ (ClusteredCount = result.total_accidents)
                 <=> (\A i \in 1 .. Len(Input) : GroupSize(i) >= min_cluster_size)

\* a success that keeps a cluster and leaves a point out
C4_Witness ==
    /\ Succeeded
    /\ ClusteredCount > 0
    /\ ClusteredCount < result.total_accidents

\* C5: the clusters of a successful fit are in non-increasing order of
\* severity_score.
C5_SortedBySeverity ==
    Succeeded => \A k \in 1 .. Len(result.clusters) - 1 :
                     result.clusters[k].severity_score
                         >= result.clusters[k + 1].severity_score

\* the sort has moved a later label in front of an earlier one
C5_Witness ==
    /\ Succeeded
    /\ Len(result.clusters) = 2
    /\ result.clusters[1].severity_score > result.clusters[2].severity_score
    /\ result.clusters[1].cluster_id > result.clusters[2].cluster_id

\* C6: when the input has at least min_cluster_size points and every label
\* group of the cut has fewer than min_cluster_size members, fit returns
\* Success with an empty cluster list and clusters_found = 0.
C6_ZeroHotspots ==
    (/\ FitCalled
     /\ Len(Input) >= min_cluster_size
     /\ labels_ # <<>>
     /\ \A i \in 1 .. Len(labels_) : GroupSize(i) < min_cluster_size)
        => result = [success |-> TRUE, total_accidents |-> Len(Input),
                     clusters_found |-> 0, clusters |-> <<>>]

C6_Witness ==
    /\ FitCalled
    /\ Len(Input) = 3
    /\ min_cluster_size = 3
    /\ n_clusters_ = 2
    /\ result.success
    /\ result.clusters = <<>>

\* the input of the fit call has a record without a coordinate key
LacksCoordinate ==
    \E i \in 1 .. Len(Input) : ~Has(Input[i], "latitude") \/ ~Has(Input[i], "longitude")

HasNaN == \E i \in 1 .. Len(Input) : NaN \in {Input[i].latitude, Input[i].longitude}

LacksId == \E i \in 1 .. Len(Input) : ~Has(Input[i], "id")

IsFailureWith(messages) ==
    /\ DOMAIN result = {"success", "message", "clusters"}
    /\ result.success = FALSE
    /\ result.message \in messages
    /\ result.clusters = <<>>

\* C7: no exception leaves fit.  Whatever the input (records without a
\* coordinate or without an id, a coordinate that is not finite, a linkage
\* method scipy does not know), fit returns a result value, and a failure
\* of extraction, merge, cut or aggregation is a Failure that carries the
\* message of the error and an empty cluster list.
C7_FailuresAreValues ==
    (FitCalled /\ Len(Input) >= min_cluster_size)
        => /\ "success" \in DOMAIN result
           /\ result.success = FALSE => result.clusters = <<>>
           /\ LacksCoordinate => IsFailureWith({"'latitude'", "'longitude'"})
           /\ (~LacksCoordinate /\ linkage_method = UnsupportedMethod)
                 => IsFailureWith({"Invalid method: nearest"})
           /\ (~LacksCoordinate /\ linkage_method # UnsupportedMethod /\ HasNaN)
                 => IsFailureWith({"The condensed distance matrix must contain only finite values."})
           /\ (~LacksCoordinate /\ linkage_method # UnsupportedMethod /\ ~HasNaN)
                 => \/ result.success
                    \/ LacksId /\ IsFailureWith({"'id'"})

\* the aggregation has failed on a record without an id, after the cut
C7_Witness ==
    /\ FitCalled
    /\ LacksId
    /\ labels_ # <<>>
    /\ IsFailureWith({"'id'"})

\* the formula of the severity score
SeverityFormula(accident_count, killed_count, injured_count) ==
    LET frequency == IF accident_count * 2 < 40 THEN accident_count * 2 ELSE 40
        casualty  == killed_count * severity_weights.killed
                        + injured_count * severity_weights.injured
        capped    == IF casualty < 60 THEN casualty ELSE 60
    IN  IF frequency + capped < 100 THEN frequency + capped ELSE 100

\* C8: for non-negative counts and the configured weights the severity
\* function returns min(min(2 * accident_count, 40) + min(killed_count *
\* weights.killed + injured_count * weights.injured, 60), 100), and the
\* severity_score of every cluster is that function of the cluster's
\* accident_count, killed_count and injured_count.
C8_SeverityFormula ==
    /\ call.op = "_calculate_severity"
          => result.score = SeverityFormula(call.accident_count, call.killed_count,
                                            call.injured_count)
    /\ Succeeded
          => \A k \in 1 .. Len(result.clusters) :
                 result.clusters[k].severity_score
                     = SeverityFormula(result.clusters[k].accident_count,
                                       result.clusters[k].killed_count,
                                       result.clusters[k].injured_count)

\* the second case of test_severity_calculation: 10 + min(75, 60)
C8_Witness ==
    /\ call.op = "_calculate_severity"
    /\ severity_weights = DefaultWeights
    /\ call.accident_count = 5
    /\ call.killed_count = 5
    /\ call.injured_count = 5
    /\ result.score = 70

\* C9: for all inputs to the severity scorer, whatever the counts and the
\* caller-supplied weights, 0 <= severity_score <= 100.
C9_SeverityBounds ==
    /\ call.op = "_calculate_severity" => result.score \in 0 .. 100
    /\ Succeeded
          => \A k \in 1 .. Len(result.clusters) :
                 result.clusters[k].severity_score \in 0 .. 100

\* the observations under a node of the dendrogram Z
RECURSIVE LeavesOf(_, _, _)
LeavesOf(node, Z, n) ==
    IF node < n THEN {node}
    ELSE LeavesOf(Z[node - n + 1][1], Z, n) \cup LeavesOf(Z[node - n + 1][2], Z, n)

\* the distance of the first merge that puts points i and j (positions of
\* the input) in one cluster
JoinDistance(Z, i, j) ==
    LET n == Len(Z) + 1
        k == CHOOSE r \in 1 .. Len(Z) :
                /\ {i - 1, j - 1} \subseteq LeavesOf(n + r - 1, Z, n)
                /\ \A q \in 1 .. r - 1 : ~({i - 1, j - 1} \subseteq LeavesOf(n + q - 1, Z, n))
    IN  Z[k][3]

\* C10: for each linkage method, two input points have the same flat label
\* if and only if the first merge of the dendrogram that puts them in one
\* cluster has a distance <= distance_threshold.
C10_CutAtThreshold ==
    (FitCalled /\ labels_ # <<>>)
        => \A i, j \in 1 .. Len(labels_) :
               i # j => ((labels_[i] = labels_[j])
                           <=> (JoinDistance(linkage_matrix_, i, j) <= distance_threshold))

\* two points merged at exactly the threshold share a label, and a third
\* point joined above it does not
C10_Witness ==
    /\ FitCalled
    /\ Len(labels_) = 3
    /\ labels_[1] = labels_[2]
    /\ JoinDistance(linkage_matrix_, 1, 2) = distance_threshold
    /\ labels_[3] # labels_[1]

\* what a newly constructed instance of this configuration retains after
\* fit(accidents_data)
RetainedBy(accidents_data) ==
    IF \/ NotEnough(accidents_data, min_cluster_size)
       \/ ExtractionError(accidents_data, 1) # NoError
       \/ LinkageError(Coordinates(accidents_data), linkage_method) # NoError
    THEN <<<<>>, 0, <<>>>>
    ELSE LET Z == Linkage(Coordinates(accidents_data), linkage_method)
             L == Fcluster(Z, distance_threshold)
         IN  <<L, Cardinality(UniqueLabels(L)), Z>>

\* C11: after any sequence of fit calls on one instance (successful,
\* fast-rejected or failed), labels_, n_clusters_ and linkage_matrix_ are
\* those of the most recent fit call only: what the instance retains is
\* what a new instance would retain after that one call.
C11_LatestFitOnly ==
    FitCalled => retained = RetainedBy(Input)

\* C12: for every cluster of a successful result, min_latitude <=
\* center_latitude <= max_latitude and min_longitude <= center_longitude
\* <= max_longitude, the centre being the mean and the bounds the min and
\* max of the member coordinates.
C12_CentroidWithinBounds ==
    Succeeded
        => \A k \in 1 .. Len(result.clusters) :
               LET c == result.clusters[k]
               IN  /\ c.min_latitude <= c.center_latitude
                   /\ c.center_latitude <= c.max_latitude
                   /\ c.min_longitude <= c.center_longitude
                   /\ c.center_longitude <= c.max_longitude

\* every record of the input has its coordinates and its id, and the
\* linkage method is one scipy knows
Regular ==
    /\ FitCalled
    /\ linkage_method \in LinkageMethods
    /\ Len(Input) >= min_cluster_size
    /\ ~LacksCoordinate
    /\ ~HasNaN

\* points i and j of the input are at a distance <= distance_threshold
\* (distances in hundredths of a grid step, compared by their squares)
Near(i, j) ==
    LET dx == Input[i].latitude - Input[j].latitude
        dy == Input[i].longitude - Input[j].longitude
        t  == distance_threshold \div DistUnit
    IN  10000 * (dx * dx + dy * dy) <= t * t

Positions == 1 .. Len(Input)

\* C13: for each linkage method, when every pair of input points is at a
\* distance <= distance_threshold (identical points included) and there
\* are at least min_cluster_size points, fit returns exactly one cluster,
\* which contains every input point: accident_count is the input count.
C13_OneClusterWhenAllNear ==
    (Regular /\ ~LacksId /\ \A i, j \in Positions : Near(i, j))
        => /\ result.success
           /\ Len(result.clusters) = 1
           /\ result.clusters[1].accident_count = Len(Input)
           /\ result.clusters[1].accident_ids = [i \in Positions |-> Input[i].id]

\* three different points, all within 1.5 steps of one another, under
\* average linkage
C13_Witness ==
    /\ Regular
    /\ ~LacksId
    /\ linkage_method = "average"
    /\ Len(Input) = 3
    /\ \A i, j \in Positions : Near(i, j)
    /\ \A i, j \in Positions :
          i # j => <<Input[i].latitude, Input[i].longitude>>
                      # <<Input[j].latitude, Input[j].longitude>>
    /\ Len(result.clusters) = 1

Grouped ==
    \A i, j, k \in Positions : (Near(i, j) /\ Near(j, k)) => Near(i, k)

GroupOf(i) == {j \in Positions : Near(i, j)}

\* C15: when the input consists of groups whose members are pairwise
\* within distance_threshold while points of different groups are farther
\* apart than it, the flat labels are exactly those groups; with two such
\* groups of min_cluster_size points each, fit returns exactly 2 clusters
\* with disjoint member ids, each with the size of its group as
\* accident_count.
C15_LabelsAreTheGroups ==
    (Regular /\ Grouped)
        => /\ \A i, j \in Positions : (labels_[i] = labels_[j]) <=> Near(i, j)
           /\ ( /\ ~LacksId
                /\ Cardinality({GroupOf(i) : i \in Positions}) = 2
                /\ \A i \in Positions : Cardinality(GroupOf(i)) = min_cluster_size )
                 => /\ result.success
                    /\ Len(result.clusters) = 2
                    /\ \A k \in 1 .. 2 :
                           result.clusters[k].accident_count = min_cluster_size
                    /\ \A a \in 1 .. min_cluster_size, b \in 1 .. min_cluster_size :
                           result.clusters[1].accident_ids[a]
                               # result.clusters[2].accident_ids[b]

\* two groups of two accidents, whose members are at different points
C15_Witness ==
    /\ Regular
    /\ Grouped
    /\ ~LacksId
    /\ Len(Input) = 4
    /\ min_cluster_size = 2
    /\ Cardinality({GroupOf(i) : i \in Positions}) = 2
    /\ \A i \in Positions : Cardinality(GroupOf(i)) = 2
    /\ \E i, j \in Positions :
          /\ Near(i, j)
          /\ Input[i].latitude # Input[j].latitude
    /\ Len(result.clusters) = 2

\* what the instance retained before the k-th call
RetainedBefore(k) == IF k = 1 THEN <<<<>>, 0, <<>>>> ELSE history[k - 1].retained

\* the fit calls made before the k-th call
FitsBefore(k) == {j \in 1 .. k - 1 : history[j].call.op = "fit"}

\* C16: predict raises an error whenever no fit on the instance has yet
\* produced labels, that is when the instance was never fitted or when
\* every fit so far was fast-rejected or failed; once a fit has produced
\* labels, predict returns one placeholder label 0 for each supplied
\* coordinate; and predict does not change what the instance retains.
C16_PredictNeedsFit ==
    \A k \in 1 .. Len(history) :
        history[k].call.op = "predict"
            => /\ (\A j \in FitsBefore(k) : ~history[j].result.success)
                     => "raised" \in DOMAIN history[k].result
               /\ (\E j \in FitsBefore(k) : history[j].retained[1] # <<>>)
                     => history[k].result
                            = [labels |-> Zeros(Len(history[k].call.new_coordinates))]
               /\ history[k].retained = RetainedBefore(k)

\* fit(accidents_data) run alone on the instance self, the set iteration
\* order being order: the value returned and the attributes left
FitAlone(self, accidents_data, order) ==
    IF NotEnough(accidents_data, self.min_cluster_size)
    THEN [result |-> Failure("Not enough accidents for clustering"), self |-> self]
    ELSE IF ExtractionError(accidents_data, 1) # NoError
    THEN [result |-> Caught(ExtractionError(accidents_data, 1)), self |-> self]
    ELSE IF LinkageError(Coordinates(accidents_data), self.linkage_method) # NoError
    THEN [result |-> Caught(LinkageError(Coordinates(accidents_data), self.linkage_method)),
          self |-> self]
    ELSE LET Z == Linkage(Coordinates(accidents_data), self.linkage_method)
             L == Fcluster(Z, self.distance_threshold)
         IN  [result |-> Returned(accidents_data,
                                  Hotspots(L, accidents_data, self.min_cluster_size,
                                           self.severity_weights, order)),
              self   |-> [self EXCEPT !.linkage_matrix_ = Z, !.labels_ = L,
                                      !.n_clusters_ = Cardinality(UniqueLabels(L))]]

\* the instance of thread t as its constructor left it
Constructed(t) ==
    [instances[t] EXCEPT !.labels_ = <<>>, !.n_clusters_ = 0, !.linkage_matrix_ = <<>>]

\* C17: fit calls that run at the same time on distinct instances do not
\* interfere.  Under every interleaving each call returns the result it
\* returns when run alone, and at every moment the attributes of each
\* instance are those its own call has written so far: the constructor's
\* values, or the values the call leaves when run alone.
C17_NoInterference ==
    \A t \in Threads :
        threads[t].pc # "idle"
            => LET orders == OrdersOf(NamesOf(threads[t].accidents_data))
                   alone(order) == FitAlone(Constructed(t), threads[t].accidents_data, order)
                   final == alone(CHOOSE order \in orders : TRUE).self
               IN  /\ instances[t].linkage_matrix_ \in {<<>>, final.linkage_matrix_}
                   /\ instances[t].labels_ \in {<<>>, final.labels_}
                   /\ instances[t].n_clusters_ \in {0, final.n_clusters_}
                   /\ threads[t].pc = "done"
                         => /\ instances[t] = final
                            /\ \E order \in orders : threads[t].result = alone(order).result

\* both calls have returned hotspots for different lists, and the second
\* thread ran between two statements of the first
C17_Witness ==
    /\ \A t \in Threads :
          /\ threads[t].pc = "done"
          /\ threads[t].result.success
          /\ threads[t].result.clusters # <<>>
    /\ instances[1].labels_ # instances[2].labels_
    /\ \E i, j, k \in 1 .. Len(log) :
          /\ i < j
          /\ j < k
          /\ log[i].thread = 1
          /\ log[j].thread = 2
          /\ log[k].thread = 1

\* C18: the descending sort is stable.  Clusters of equal severity_score
\* are in the result in the order in which they were aggregated, which is
\* the ascending order of their labels.
C18_TiesKeepAggregationOrder ==
    Succeeded
        => \A a, b \in 1 .. Len(result.clusters) :
               ( /\ a < b
                 /\ result.clusters[a].severity_score = result.clusters[b].severity_score )
                  => result.clusters[a].cluster_id < result.clusters[b].cluster_id

\* two hotspots with the same score
C18_Witness ==
    /\ Succeeded
    /\ Len(result.clusters) = 2
    /\ result.clusters[1].severity_score = result.clusters[2].severity_score
    /\ result.clusters[1].cluster_id = 1
    /\ result.clusters[2].cluster_id = 2

\* the sum of the distances of the given pairs of observations
RECURSIVE SumOfDistances(_, _)
SumOfDistances(pairs, coords) ==
    IF pairs = {} THEN 0
    ELSE LET pr == CHOOSE x \in pairs : TRUE
         IN  Euclid(coords[pr[1] + 1], coords[pr[2] + 1])
                + SumOfDistances(pairs \ {pr}, coords)

\* the distance of two clusters of observations under the linkage method:
\* the largest, the smallest or the mean pairwise euclidean distance
InterClusterDistance(A, B, coords) ==
    LET all == {Euclid(coords[a + 1], coords[b + 1]) : a \in A, b \in B}
    IN  CASE linkage_method = "complete" -> MaxOf(all)
          [] linkage_method = "single"   -> MinOf(all)
          [] OTHER -> SumOfDistances(A \X B, coords) \div (Cardinality(A) * Cardinality(B))

\* the clusters that exist before the k-th merge of the dendrogram Z
CurrentBefore(k, Z) ==
    LET n == Len(Z) + 1
    IN  ((0 .. n - 1) \cup {n + q - 1 : q \in 1 .. k - 1})
            \ UNION {{Z[q][1], Z[q][2]} : q \in 1 .. k - 1}

\* C19: every merge joins the two current clusters whose inter-cluster
\* distance is minimal, that distance being the maximum (complete), the
\* minimum (single) or the mean (average) of the pairwise euclidean
\* distances of their members, and for N points exactly N - 1 merges are
\* recorded.
C19_MergesClosestPair ==
    (FitCalled /\ labels_ # <<>>)
        => LET Z == linkage_matrix_
               n == Len(Input)
               coords == Coordinates(Input)
               D(a, b) == InterClusterDistance(LeavesOf(a, Z, n), LeavesOf(b, Z, n), coords)
           IN  /\ Len(Z) = n - 1
               /\ \A k \in 1 .. n - 1 :
                      /\ {Z[k][1], Z[k][2]} \subseteq CurrentBefore(k, Z)
                      /\ Z[k][1] # Z[k][2]
                      /\ Z[k][3] = D(Z[k][1], Z[k][2])
                      /\ Z[k][4] = Cardinality(LeavesOf(n + k - 1, Z, n))
                      /\ \A a, b \in CurrentBefore(k, Z) : a # b => Z[k][3] <= D(a, b)

\* four points under average linkage: a pair, then a third point joins the
\* pair at the mean of its two distances, then the fourth
C19_Witness ==
    /\ FitCalled
    /\ linkage_method = "average"
    /\ Len(labels_) = 4
    /\ linkage_matrix_[1][4] = 2
    /\ linkage_matrix_[2][4] = 3
    /\ linkage_matrix_[3][4] = 4
    /\ linkage_matrix_[1][3] < linkage_matrix_[2][3]
    /\ linkage_matrix_[2][3] < linkage_matrix_[3][3]

\* the positions of the input that carry the label of cluster c
MembersOf(c) == {i \in Positions : labels_[i] = c.cluster_id}

\* the victims of the accidents at the given positions, an accident
\* without a victim_count counting for none
RECURSIVE VictimsAt(_)
VictimsAt(positions) ==
    IF positions = {} THEN 0
    ELSE LET i == CHOOSE p \in positions : TRUE
         IN  (IF Has(Input[i], "victim_count") THEN Input[i].victim_count ELSE 0)
                + VictimsAt(positions \ {i})

\* C20: for every output cluster, total_casualties is the sum of
\* victim_count over its members (a missing victim_count counts as 0),
\* killed_count is the number of members whose victim_killed is true and
\* injured_count the number of members whose victim_injured is true.
C20_CasualtyCounts ==
    Succeeded
        => \A k \in 1 .. Len(result.clusters) :
               LET c == result.clusters[k]
               IN  /\ c.total_casualties = VictimsAt(MembersOf(c))
                   /\ c.killed_count
                         = Cardinality({i \in MembersOf(c) :
                                           /\ Has(Input[i], "victim_killed")
                                           /\ Input[i].victim_killed})
                   /\ c.injured_count
                         = Cardinality({i \in MembersOf(c) :
                                           /\ Has(Input[i], "victim_injured")
                                           /\ Input[i].victim_injured})

\* a hotspot of four accidents, one of them without a victim_count and
\* one without a victim_killed
C20_Witness ==
    /\ Succeeded
    /\ \E k \in 1 .. Len(result.clusters) :
          LET c == result.clusters[k]
          IN  /\ c.accident_count = 4
              /\ \E i \in MembersOf(c) : ~Has(Input[i], "victim_count")
              /\ \E i \in MembersOf(c) : ~Has(Input[i], "victim_killed")
              /\ c.total_casualties = 3
              /\ c.killed_count = 2
              /\ c.injured_count = 2

\* the municipal value of the accident at position i of the input
MunicipalAt(i) ==
    IF Has(Input[i], "municipal") THEN Input[i].municipal ELSE "Unknown"

\* the number of members of cluster c whose municipal value is name
Occurrences(c, name) == Cardinality({i \in MembersOf(c) : MunicipalAt(i) = name})

\* C21: for every output cluster, primary_location is a municipal value
\* with the largest number of occurrences among the members, it is one of
\* municipalities, and municipalities holds every distinct municipal value
\* of the members exactly once.
C21_PrimaryLocation ==
    Succeeded
        => \A k \in 1 .. Len(result.clusters) :
               LET c == result.clusters[k]
                   listed == c.municipalities
               IN  /\ \A i \in MembersOf(c) :
                          Occurrences(c, c.primary_location) >= Occurrences(c, MunicipalAt(i))
                   /\ Occurrences(c, c.primary_location) >= 1
                   /\ \E a \in 1 .. Len(listed) : listed[a] = c.primary_location
                   /\ {listed[a] : a \in 1 .. Len(listed)}
                         = {MunicipalAt(i) : i \in MembersOf(c)}
                   /\ \A a, b \in 1 .. Len(listed) : listed[a] = listed[b] => a = b

\* a hotspot with two municipal values, the more frequent of which is not
\* the first of the set
C21_Witness ==
    /\ Succeeded
    /\ \E k \in 1 .. Len(result.clusters) :
          LET c == result.clusters[k]
          IN  /\ Len(c.municipalities) = 2
              /\ c.municipalities[2] = c.primary_location
              /\ Occurrences(c, c.municipalities[1]) < Occurrences(c, c.municipalities[2])

\* the members of cluster c that have a date
DatedMembers(c) ==
    {i \in MembersOf(c) : Has(Input[i], "date_committed") /\ Input[i].date_committed # 0}

\* C22: for every output cluster, date_range_start and date_range_end are
\* the smallest and the largest date_committed of the members that have a
\* date, both are None (0) when no member has one, and otherwise
\* date_range_start <= date_range_end.
C22_DateRange ==
    Succeeded
        => \A k \in 1 .. Len(result.clusters) :
               LET c == result.clusters[k]
                   dated == DatedMembers(c)
               IN  IF dated = {}
                   THEN c.date_range_start = 0 /\ c.date_range_end = 0
                   ELSE /\ \E i \in dated : c.date_range_start = Input[i].date_committed
                        /\ \E i \in dated : c.date_range_end = Input[i].date_committed
                        /\ \A i \in dated :
                              /\ c.date_range_start <= Input[i].date_committed
                              /\ Input[i].date_committed <= c.date_range_end
                        /\ c.date_range_start <= c.date_range_end

\* a hotspot with an undated member and two different dates
C22_Witness ==
    /\ Succeeded
    /\ \E k \in 1 .. Len(result.clusters) :
          LET c == result.clusters[k]
          IN  /\ DatedMembers(c) # MembersOf(c)
              /\ c.date_range_start # 0
              /\ c.date_range_start < c.date_range_end

\* a hotspot none of whose members has a date
C22_WitnessUndated ==
    /\ Succeeded
    /\ \E k \in 1 .. Len(result.clusters) :
          /\ DatedMembers(result.clusters[k]) = {}
          /\ result.clusters[k].date_range_end = 0

\* the member of cluster c that has `before' members ahead of it in the input
MemberAt(c, before) ==
    CHOOSE i \in MembersOf(c) : Cardinality({m \in MembersOf(c) : m < i}) = before

\* C23: the accident_ids of every cluster are exactly the ids of the input
\* points that carry the cluster's label, in the order in which those points
\* appear in the input.
C23_IdsInInputOrder ==
    Succeeded
        => \A k \in 1 .. Len(result.clusters) :
               LET c == result.clusters[k]
               IN  /\ Len(c.accident_ids) = Cardinality(MembersOf(c))
                   /\ \A a \in 1 .. Len(c.accident_ids) :
                          c.accident_ids[a] = Input[MemberAt(c, a - 1)].id

\* two hotspots whose members alternate in the input
C23_Witness ==
    /\ Succeeded
    /\ Len(Input) = 4
    /\ Len(result.clusters) = 2
    /\ labels_[1] = labels_[3]
    /\ labels_[2] = labels_[4]
    /\ labels_[1] # labels_[2]

\* C24: under complete linkage, every two members of one output cluster are
\* at a distance <= distance_threshold of each other.
C24_CompleteDiameter ==
    (Succeeded /\ linkage_method = "complete")
        => \A k \in 1 .. Len(result.clusters) :
               \A i, j \in MembersOf(result.clusters[k]) : Near(i, j)

\* under complete linkage a hotspot of points at different places leaves
\* out a point that is within the threshold of one of its members but not
\* of another
C24_Witness ==
    /\ Succeeded
    /\ linkage_method = "complete"
    /\ \E k \in 1 .. Len(result.clusters) :
          LET members == MembersOf(result.clusters[k])
          IN  \E i, j \in members, o \in Positions \ members :
                 /\ Input[i].latitude # Input[j].latitude
                 /\ Near(i, o)
                 /\ ~Near(j, o)

(***************************************************************************)
(* The clustering jobs: the Celery task run_clustering_task                *)
(* (accidents/tasks.py) and the management command run_clustering.  Each   *)
(* reads the accidents table, constructs a clusterer, calls fit and writes *)
(* the hotspots back; a step is one run of a job, from its first statement *)
(* to its return.  The tables are sets of rows, a job row is known by its  *)
(* position in job_rows, dates are day numbers and time stamps are left    *)
(* out.  The task creates its job row without date_from and date_to, which *)
(* models.py declares NOT NULL; the migrations that make the table are not *)
(* part of the sources, so the table either takes the row or refuses it.   *)
(***************************************************************************)
MaxRuns == 4        \* runs of a job, retries included

max_retries == 3    \* of the shared_task decorator

Today == 5          \* timezone.now().date()

\* the instance of the sequential specifications is constructed and left alone
NoCalls ==
    /\ linkage_method = "complete"
    /\ distance_threshold = DistUnit * 100
    /\ min_cluster_size = 3
    /\ severity_weights = DefaultWeights
    /\ labels_ = <<>>
    /\ n_clusters_ = 0
    /\ linkage_matrix_ = <<>>
    /\ call = [op |-> "__init__"]
    /\ result = [op |-> "__init__"]
    /\ history = <<>>

\* a row of the accidents table, committed on day i, in no hotspot yet
AccidentRow(i, pos) ==
    [id |-> IdOf(i), latitude |-> pos[1], longitude |-> pos[2],
     victim_count |-> i % 3, victim_killed |-> (i % 2 = 0), victim_injured |-> TRUE,
     municipal |-> IF i = 1 THEN "Ampayon" ELSE "Butuan City",
     date_committed |-> i, cluster_id |-> Null, is_hotspot |-> FALSE]

AccidentRows(positions) == {AccidentRow(i, positions[i]) : i \in 1 .. Len(positions)}

\* the accidents tables the model draws: two groups of two, two accidents
\* at one place with a third next to them and a fourth far away, and two
\* accidents
Tables ==
    {AccidentRows(<<<<0, 0>>, <<0, 0>>, <<MaxLat, MaxLng>>, <<MaxLat, MaxLng>>>>),
     AccidentRows(<<<<0, 0>>, <<0, 0>>, <<MaxLat, MaxLng>>, <<0, 1>>>>),
     AccidentRows(<<<<0, 0>>, <<0, 0>>>>)}

\* the arguments of a job; days = 0 is None
JobArgs ==
    {[linkage_method |-> "complete", distance_threshold |-> DistUnit * 150,
      min_cluster_size |-> 2, days |-> 0],
     [linkage_method |-> "complete", distance_threshold |-> DistUnit * 100,
      min_cluster_size |-> 3, days |-> 0],
     [linkage_method |-> "single", distance_threshold |-> DistUnit * 150,
      min_cluster_size |-> 2, days |-> 2],
     [linkage_method |-> UnsupportedMethod, distance_threshold |-> DistUnit * 150,
      min_cluster_size |-> 2, days |-> 0]}

\* Accident.objects.filter(latitude__isnull=False, longitude__isnull=False),
\* and date_committed__gte=start_date when a start date is given
Queryset(rows, start_date) ==
    {r \in rows : /\ r.latitude # Null
                  /\ r.longitude # Null
                  /\ (start_date # 0 => r.date_committed >= start_date)}

\* Meta.ordering of Accident: the latest date_committed first
RECURSIVE Ordered(_)
Ordered(rows) ==
    IF rows = {} THEN <<>>
    ELSE LET latest == CHOOSE r \in rows : \A o \in rows : r.date_committed >= o.date_committed
         IN  <<latest>> \o Ordered(rows \ {latest})

\* queryset.values('id', 'latitude', ..., 'date_committed')
Values(row) ==
    [key \in {"id", "latitude", "longitude", "victim_count", "victim_killed",
              "victim_injured", "municipal", "date_committed"} |-> row[key]]

AccidentsData(rows, start_date) ==
    LET queryset == Ordered(Queryset(rows, start_date))
    IN  [i \in 1 .. Len(queryset) |-> Values(queryset[i])]

\* AGNESClusterer(linkage_method=..., distance_threshold=..., min_cluster_size=...)
Clusterer(args) ==
    NewInstance(<<args.linkage_method, args.distance_threshold, args.min_cluster_size,
                  DefaultWeights>>)

\* ClusteringJob.objects.create(status='running', ...)
NewJob(args, date_from, date_to) ==
    [status |-> "running", linkage_method |-> args.linkage_method,
     distance_threshold |-> args.distance_threshold,
     min_cluster_size |-> args.min_cluster_size,
     total_accidents |-> 0, clusters_found |-> 0, error_message |-> "",
     date_from |-> date_from, date_to |-> date_to]

\* mutant: the except clause saves the message and leaves the status alone
FailedJobStillRunning(job, message) == [job EXCEPT !.error_message = message]

\* except Exception as e: job.status = 'failed'; job.error_message = str(e)
FailedJob(job, message) == [job EXCEPT !.status = "failed", !.error_message = message]

CompletedJob(job, total_accidents, clusters_found) ==
    [job EXCEPT !.status = "completed", !.total_accidents = total_accidents,
                !.clusters_found = clusters_found]

\* AccidentCluster.objects.create(...) for one cluster of the result
ClusterRow(cluster_data, algorithm_version, args) ==
    [cluster_id       |-> cluster_data.cluster_id,
     center_latitude  |-> cluster_data.center_latitude,
     center_longitude |-> cluster_data.center_longitude,
     accident_count   |-> cluster_data.accident_count,
     total_casualties |-> cluster_data.total_casualties,
     severity_score   |-> cluster_data.severity_score,
     primary_location |-> cluster_data.primary_location,
     municipalities   |-> cluster_data.municipalities,
     min_latitude     |-> cluster_data.min_latitude,
     max_latitude     |-> cluster_data.max_latitude,
     min_longitude    |-> cluster_data.min_longitude,
     max_longitude    |-> cluster_data.max_longitude,
     date_range_start |-> cluster_data.date_range_start,
     date_range_end   |-> cluster_data.date_range_end,
     algorithm_version  |-> algorithm_version,
     linkage_method     |-> args.linkage_method,
     distance_threshold |-> args.distance_threshold]

ClusterRows(clusters, algorithm_version, args) ==
    {ClusterRow(clusters[k], algorithm_version, args) : k \in 1 .. Len(clusters)}

IdsOf(cluster_data) ==
    {cluster_data.accident_ids[j] : j \in 1 .. Len(cluster_data.accident_ids)}

\* Accident.objects.filter(id__in=accident_ids).update(cluster_id=...,
\* is_hotspot=True), for each cluster in turn
RECURSIVE Assigned(_, _)
Assigned(rows, clusters) ==
    IF clusters = <<>> THEN rows
    ELSE Assigned({IF r.id \in IdsOf(Head(clusters))
                   THEN [r EXCEPT !.cluster_id = Head(clusters).cluster_id,
                                  !.is_hotspot = TRUE]
                   ELSE r : r \in rows},
                  Tail(clusters))

\* Accident.objects.filter(cluster_id__isnull=True).update(is_hotspot=False)
MarkNonHotspot(rows) ==
    {IF r.cluster_id = Null THEN [r EXCEPT !.is_hotspot = FALSE] ELSE r : r \in rows}

\* Accident.objects.all().update(cluster_id=None, is_hotspot=False)
ResetAll(rows) == {[r EXCEPT !.cluster_id = Null, !.is_hotspot = FALSE] : r \in rows}

\* self.retry(exc=e): the task is queued again while it has retries left
Retried(args, retries, rest) ==
    IF retries < max_retries
    THEN rest \cup {[args |-> args, retries |-> retries + 1]}
    ELSE rest

\* the ValueError of the command's own check
NeedAtLeast(n) == "Not enough accidents (need at least " \o ToString(n) \o ")"

\* one run of run_clustering_task; rest is what else waits in the queue
RunClusteringTask(args, retries, rest) ==
    LET start_date == IF args.days # 0 THEN Today - args.days ELSE 0
        accidents_data == AccidentsData(accident_rows, start_date)
        job == [NewJob(args, 0, 0) EXCEPT !.date_from = start_date]
        ran == [kind |-> "task", number |-> run.number + 1, args |-> args,
                retries |-> retries, job |-> 0, fitted |-> FALSE,
                before |-> <<accident_rows, cluster_rows>>]
    IN  IF ~nullable_dates
        THEN \* the INSERT of the job row raises IntegrityError
             /\ run' = ran
             /\ task_queue' = Retried(args, retries, rest)
             /\ UNCHANGED <<accident_rows, cluster_rows, job_rows>>
        ELSE \E order \in OrdersOf(NamesOf(accidents_data)) :
                /\ run' = [ran EXCEPT !.fitted = TRUE, !.job = Len(job_rows) + 1]
                            @@ [result |-> FitAlone(Clusterer(args), accidents_data,
                                                     order).result]
                /\ IF run'.result.success
                   THEN /\ cluster_rows' = ClusterRows(run'.result.clusters, "AGNES-1.0", args)
                        /\ accident_rows' =
                              MarkNonHotspot(Assigned(accident_rows, run'.result.clusters))
                        /\ job_rows' = Append(job_rows,
                                              CompletedJob(job, Len(accidents_data),
                                                           run'.result.clusters_found))
                        /\ task_queue' = rest
                   ELSE /\ job_rows' = Append(job_rows, FailedJob(job, run'.result.message))
                        /\ task_queue' = Retried(args, retries, rest)
                        /\ UNCHANGED <<accident_rows, cluster_rows>>

\* one run of the management command (Command.handle)
Handle(args) ==
    LET date_to == Today
        date_from == IF args.days # 0 THEN date_to - args.days ELSE 0
        accidents == AccidentsData(accident_rows, date_from)
        ran == [kind |-> "command", number |-> run.number + 1, args |-> args,
                job |-> Len(job_rows) + 1, fitted |-> FALSE,
                before |-> <<accident_rows, cluster_rows>>]
    IN  /\ UNCHANGED task_queue
        /\ IF date_from = 0 /\ accident_rows = {}
           THEN \* Accident.objects.earliest raises DoesNotExist
                /\ run' = [ran EXCEPT !.job = 0]
                /\ UNCHANGED <<accident_rows, cluster_rows, job_rows>>
           ELSE LET earliest == MinOf({r.date_committed : r \in accident_rows})
                    job == NewJob(args, IF date_from # 0 THEN date_from ELSE earliest, date_to)
                IN  IF Len(accidents) < args.min_cluster_size
                    THEN /\ run' = ran
                         /\ job_rows' = Append(job_rows,
                                               FailedJob(job, NeedAtLeast(args.min_cluster_size)))
                         /\ UNCHANGED <<accident_rows, cluster_rows>>
                    ELSE \E order \in OrdersOf(NamesOf(accidents)) :
                            /\ run' = [ran EXCEPT !.fitted = TRUE]
                                        @@ [result |-> FitAlone(Clusterer(args), accidents,
                                                                 order).result]
                            /\ IF run'.result.success
                               THEN /\ cluster_rows' =
                                          ClusterRows(run'.result.clusters, "AGNES", args)
                                    /\ accident_rows' =
                                          Assigned(ResetAll(accident_rows), run'.result.clusters)
                                    /\ job_rows' = Append(job_rows,
                                                          CompletedJob(job, Len(accidents),
                                                                       Len(run'.result.clusters)))
                               ELSE /\ job_rows' = Append(job_rows,
                                                          FailedJob(job, run'.result.message))
                                    /\ UNCHANGED <<accident_rows, cluster_rows>>

InitJob ==
    /\ NoCalls
    /\ NoThreads
    /\ NoLogins
    /\ accident_rows \in Tables
    /\ cluster_rows = {}
    /\ job_rows = <<>>
    /\ task_queue = {}
    /\ run = [kind |-> "none", number |-> 0]
    /\ nullable_dates \in BOOLEAN

NextJob ==
    /\ run.number < MaxRuns
    /\ \/ \E args \in JobArgs : RunClusteringTask(args, 0, task_queue)
       \/ \E m \in task_queue : RunClusteringTask(m.args, m.retries, task_queue \ {m})
       \/ \E args \in JobArgs : Handle(args)
    /\ UNCHANGED <<nullable_dates, single, concurrent, logins>>

SpecJob == InitJob /\ [][NextJob]_vars

\* the last job that ran called fit
RanFit(kinds) == run.kind \in kinds /\ run.fitted

\* the ids of the accidents in the hotspots the last run found
HotspotIds == UNION {IdsOf(run.result.clusters[k]) : k \in 1 .. Len(run.result.clusters)}

C26_FailureLeavesDataAlone ==
    /\ (RanFit({"task", "command"}) /\ ~run.result.success)
          => /\ job_rows[run.job].status = "failed"
             /\ job_rows[run.job].error_message = run.result.message
             /\ accident_rows = run.before[1]
             /\ cluster_rows = run.before[2]
    /\ \A j \in 1 .. Len(job_rows) : job_rows[j].status # "running"

\* the command fails in fit after an earlier run has stored hotspots
C26_Witness ==
    /\ RanFit({"command"})
    /\ ~run.result.success
    /\ cluster_rows # {}
    /\ \E r \in accident_rows : r.is_hotspot
    /\ job_rows[run.job].error_message = "Invalid method: " \o UnsupportedMethod

\* the second retry of the task fails in fit, with too few accidents, after
\* an earlier run has stored hotspots
C26_WitnessTask ==
    /\ RanFit({"task"})
    /\ run.retries = 2
    /\ ~run.result.success
    /\ cluster_rows # {}
    /\ job_rows[run.job].error_message = "Not enough accidents for clustering"

(***************************************************************************)
(* The login view (accidents/views.py) for one user who has a profile.     *)
(* A step is one POST of the login form with the user's name, from         *)
(* authenticate to the response, or the clock moving on.  Attempts under   *)
(* a name nobody has write the audit log only, which is not modelled.      *)
(***************************************************************************)
MaxTime == 90        \* the clock stops here
MaxAttempts == 7     \* wrong passwords counted on the profile
Step == 10           \* minutes the clock moves at a time

LockAfter == 5       \* failed attempts that lock the account
LockMinutes == 30    \* timedelta(minutes=30)

\* mutant: the account is locked for ten minutes
LockedUntilShort(t) == t + 10

\* timezone.now() + timedelta(minutes=30)
LockedUntil(t) == t + LockMinutes

\* UserProfile.is_account_locked at time t: what it returns and the row it
\* leaves
IsAccountLocked(p, t) ==
    IF p.account_locked_until # Null
    THEN IF t < p.account_locked_until
         THEN [locked |-> TRUE, profile |-> p]
         ELSE [locked |-> FALSE,
               profile |-> [p EXCEPT !.account_locked_until = Null,
                                     !.failed_login_attempts = 0]]
    ELSE [locked |-> FALSE, profile |-> p]

\* handle_failed_login for a user who has a profile
HandleFailedLogin(p, t) ==
    LET counted == [p EXCEPT !.failed_login_attempts = @ + 1]
    IN  IF counted.failed_login_attempts >= LockAfter
        THEN [profile |-> [counted EXCEPT !.account_locked_until = LockedUntil(t)],
              message |-> "Account locked for 30 minutes due to multiple failed attempts."]
        ELSE [profile |-> counted,
              message |-> "Invalid credentials. "
                             \o ToString(LockAfter - counted.failed_login_attempts)
                             \o " attempts remaining."]

\* handle_successful_login
HandleSuccessfulLogin(p) ==
    [p EXCEPT !.failed_login_attempts = 0, !.account_locked_until = Null]

Attempted(correct, message) ==
    [outcome |-> message, correct |-> correct, at |-> now, before |-> profile]

\* the POST of the login form with the right password
LoginWithPassword ==
    LET checked == IsAccountLocked(profile, now)
    IN  /\ streak' = 0
        /\ UNCHANGED now
        /\ IF checked.locked
           THEN /\ attempt' = Attempted(TRUE, "Account temporarily locked due to failed login attempts. Please try again later.")
                /\ profile' = checked.profile
           ELSE IF ~checked.profile.is_active
           THEN /\ attempt' = Attempted(TRUE, "Your account has been deactivated. Contact administrator.")
                /\ profile' = checked.profile
           ELSE /\ attempt' = Attempted(TRUE, "Welcome back")
                /\ profile' = HandleSuccessfulLogin(checked.profile)

\* the POST of the login form with a wrong password
LoginWithWrongPassword ==
    /\ profile.failed_login_attempts < MaxAttempts
    /\ streak' = streak + 1
    /\ UNCHANGED now
    /\ attempt' = Attempted(FALSE, HandleFailedLogin(profile, now).message)
    /\ profile' = HandleFailedLogin(profile, now).profile

Tick ==
    /\ now < MaxTime
    /\ now' = now + Step
    /\ UNCHANGED <<profile, attempt, streak>>

InitLogin ==
    /\ NoCalls
    /\ NoThreads
    /\ NoJobs
    /\ \E is_active \in BOOLEAN :
          profile = [failed_login_attempts |-> 0, account_locked_until |-> Null,
                     is_active |-> is_active]
    /\ now = 0
    /\ attempt = [outcome |-> "none"]
    /\ streak = 0

NextLogin ==
    /\ \/ LoginWithPassword
       \/ LoginWithWrongPassword
       \/ Tick
    /\ UNCHANGED <<single, concurrent, jobs>>

SpecLogin == InitLogin /\ [][NextLogin]_vars

\* somebody has tried to log in as the user
Tried == attempt.outcome # "none"

\* the account was locked when the last attempt was made
LockedBefore ==
    /\ attempt.before.account_locked_until # Null
    /\ attempt.at < attempt.before.account_locked_until

\* the lock of the account had run out when the last attempt was made
ExpiredBefore ==
    /\ attempt.before.account_locked_until # Null
    /\ attempt.at >= attempt.before.account_locked_until

\* C27: after 5 wrong passwords in a row the account is locked for 30
\* minutes from the last of them: is_account_locked returns true until
\* account_locked_until is reached; and an attempt with the right password
\* made while the account is locked is rejected and leaves the failure
\* counter (and the lock) as it was.
C27_LockedForThirtyMinutes ==
    /\ streak >= 5
          => /\ profile.account_locked_until = attempt.at + 30
             /\ profile.failed_login_attempts >= 5
             /\ IsAccountLocked(profile, now).locked <=> now < attempt.at + 30
    /\ (Tried /\ attempt.correct /\ LockedBefore)
          => /\ attempt.outcome = "Account temporarily locked due to failed login attempts. Please try again later."
             /\ profile = attempt.before

\* the right password is rejected twenty minutes after the fifth wrong one
C27_Witness ==
    /\ Tried
    /\ attempt.correct
    /\ LockedBefore
    /\ profile.failed_login_attempts = 5
    /\ attempt.at + 10 = profile.account_locked_until
    /\ profile.is_active

\* five wrong passwords in a row, and the lock has just run out
C27_WitnessExpired ==
    /\ streak = 5
    /\ now = attempt.at + 30
    /\ ~IsAccountLocked(profile, now).locked

\* C28: once the lock period has run out the account is unlocked with
\* failed_login_attempts back at 0, so the first wrong password after that
\* does not lock the account again.
C28_FreshLockNeedsFive ==
    (Tried /\ ~attempt.correct /\ ExpiredBefore)
        => /\ profile.account_locked_until = Null
           /\ profile.failed_login_attempts = 1

\* the instance as its constructor left it, before the call
Fresh ==
    NewInstance(<<linkage_method, distance_threshold, min_cluster_size, severity_weights>>)

\* C29: fit is deterministic.  A fit call with the same configuration on
\* the same input returns the result this call returned, whatever the order
\* in which the set of municipal names is iterated: the same cluster ids in
\* the same order, the same primary_location when several names are the
\* most frequent, and the same order of municipalities.
C29_Deterministic ==
    FitCalled
        => \A order \in OrdersOf(NamesOf(Input)) :
               FitAlone(Fresh, Input, order).result = result

\* C30: every result of fit is well-formed.  A Failure has success = false,
\* a message and an empty clusters list; a Success has total_accidents
\* equal to the number of input points and clusters_found equal to the
\* length of clusters.
C30_WellFormed ==
    FitCalled
        => /\ "success" \in DOMAIN result
           /\ result.success \in BOOLEAN
           /\ IF result.success
              THEN /\ DOMAIN result
                         = {"success", "total_accidents", "clusters_found", "clusters"}
                   /\ result.total_accidents = Len(Input)
                   /\ result.clusters_found = Len(result.clusters)
              ELSE /\ DOMAIN result = {"success", "message", "clusters"}
                   /\ result.message # ""
                   /\ result.clusters = <<>>

\* a Success with one hotspot that leaves input points out
C30_Witness ==
    /\ Succeeded
    /\ result.clusters_found = 1
    /\ ClusteredCount < result.total_accidents

\* a Failure raised inside fit, on a list that is long enough
C30_WitnessFailure ==
    /\ FitCalled
    /\ ~result.success
    /\ Len(Input) >= min_cluster_size

=============================================================================
